---- MODULE Spec2Model ----
(***************************************************************************)
(* A model of the trade extraction pipeline of tools/enhanced_extract_trade *)
(* (record building, persistence to the three sinks, single-image and      *)
(* batch orchestration, and two concurrent saves).                         *)
(*                                                                         *)
(* Texts are sequences of characters.  A character is a one-letter string; *)
(* four characters have names: "bt" is the back-tick, "dq" the double      *)
(* quote, "sp" the space and "nl" the newline.                             *)
(*                                                                         *)
(* A Python value is a record with a tag t: "None", "bool", "int",         *)
(* "float", "str", "list", "dict".  A float is a fixed-point number: its   *)
(* field x counts units of 10^-FracDigits; digits beyond FracDigits are    *)
(* dropped (the float's finite precision) and a magnitude beyond           *)
(* FloatMaxInt is out of the float's range (the double's range, scaled     *)
(* down so that the bounded inputs reach it).                              *)
(***************************************************************************)
EXTENDS Integers, Sequences, FiniteSets, TLC

VARIABLES
    log,        \* logs/trade_log.jsonl: the sequence of lines (one record each)
    artifacts,  \* output/: file name -> content, a function on the names written
    summaries,  \* summaries/: day -> NoFile, the summary document, or a text that is no JSON
    clock,      \* datetime.now(), in ticks
    call,       \* the operation called last and its arguments
    ret,        \* what that call returned or raised
    pc,         \* two concurrent saves: the position of each
    loc         \* two concurrent saves: each one's local `summary` and `saved`

vars == <<log, artifacts, summaries, clock, call, ret, pc, loc>>

(***************************** bounds ***************************************)
FracDigits == 2      \* decimal digits a float keeps
MaxStrLen == 3       \* longest enumerated pnl_amount display string
MaxLog == 2          \* longest log the pipeline specifications build
MaxClock == 2        \* last tick of the clock
MaxIds == 2          \* number of distinct uuid4 prefixes drawn
MaxBatch == 2        \* most image files in a folder

(* The largest integer magnitude a float holds (sys.float_info.max, scaled). *)
FloatMaxInt == 99999

RECURSIVE Pow10(_)
Pow10(n) == IF n = 0 THEN 1 ELSE 10 * Pow10(n - 1)
Scale == Pow10(FracDigits)
Inf == (FloatMaxInt + 1) * Scale

(***************************** Python values ********************************)
None == [t |-> "None"]
PyBool(b) == [t |-> "bool", b |-> b]
PyInt(n) == [t |-> "int", n |-> n]
PyFloat(x) == [t |-> "float", x |-> x]
PyStr(s) == [t |-> "str", s |-> s]
PyList(items) == [t |-> "list", items |-> items]
PyDict(kv) == [t |-> "dict", kv |-> kv]
Raise(e) == [t |-> "raise", e |-> e]

(***************************** characters and str ***************************)
DigitChars == <<"0", "1", "2", "3", "4", "5", "6", "7", "8", "9">>
IsDigit(c) == \E d \in 1..10 : DigitChars[d] = c
DigitVal(c) == (CHOOSE d \in 1..10 : DigitChars[d] = c) - 1
IsSpace(c) == c \in {"sp", "nl"}

RECURSIVE LStrip(_)
LStrip(s) == IF s # <<>> /\ IsSpace(Head(s)) THEN LStrip(Tail(s)) ELSE s
RECURSIVE RStrip(_)
RStrip(s) ==
    IF s # <<>> /\ IsSpace(s[Len(s)]) THEN RStrip(SubSeq(s, 1, Len(s) - 1)) ELSE s
(* str.strip() *)
Strip(s) == RStrip(LStrip(s))

(* str.startswith(p) *)
StartsWith(s, p) == Len(s) >= Len(p) /\ SubSeq(s, 1, Len(p)) = p
(* str.endswith(p) *)
EndsWith(s, p) == Len(s) >= Len(p) /\ SubSeq(s, Len(s) - Len(p) + 1, Len(s)) = p
(* s[a:-b], for a >= 0 and b > 0 *)
Slice(s, a, b) == IF Len(s) - b <= a THEN <<>> ELSE SubSeq(s, a + 1, Len(s) - b)

(* the position after the run of digits that starts at i *)
RECURSIVE ScanDigits(_, _)
ScanDigits(s, i) == IF i <= Len(s) /\ IsDigit(s[i]) THEN ScanDigits(s, i + 1) ELSE i

(* the number the digits s[i..j-1] spell (0 for none) *)
RECURSIVE DigitsVal(_, _, _)
DigitsVal(s, i, j) ==
    IF j <= i THEN 0 ELSE 10 * DigitsVal(s, i, j - 1) + DigitVal(s[j - 1])

(* the fraction digits s[i..j-1] in units of 10^-FracDigits *)
FracVal(s, i, j) ==
    LET n == j - i IN
    IF n >= FracDigits THEN DigitsVal(s, i, i + FracDigits)
    ELSE DigitsVal(s, i, j) * Pow10(FracDigits - n)

(* the float of sign * (ip + fp / Scale); beyond the range it is +-inf *)
MkFloat(sign, ip, fp) ==
    IF ip > FloatMaxInt THEN PyFloat(sign * Inf) ELSE PyFloat(sign * (ip * Scale + fp))

(***************************** float(str) ***********************************)
(* float(s) for a text of digits, points and signs: an optional sign, then  *)
(* digits with an optional point, or a point and digits.  ok = FALSE is    *)
(* ValueError.                                                             *)
ParseFloatStr(s) ==
    LET signed == s # <<>> /\ s[1] \in {"+", "-"}
        sign == IF signed /\ s[1] = "-" THEN -1 ELSE 1
        i == IF signed THEN 2 ELSE 1
        j == ScanDigits(s, i)
    IN  IF j <= Len(s) /\ s[j] = "."
        THEN LET k == ScanDigits(s, j + 1) IN
             IF k > Len(s) /\ (j > i \/ k > j + 1)
             THEN [ok |-> TRUE, val |-> MkFloat(sign, DigitsVal(s, i, j), FracVal(s, j + 1, k))]
             ELSE [ok |-> FALSE]
        ELSE IF j > Len(s) /\ j > i
             THEN [ok |-> TRUE, val |-> MkFloat(sign, DigitsVal(s, i, j), 0)]
             ELSE [ok |-> FALSE]

(* float(v) for an int, a float or a bool; a Python int beyond the float's  *)
(* range raises OverflowError.                                             *)
FloatOf(v) ==
    IF v.t = "float" THEN v
    ELSE IF v.t = "bool" THEN PyFloat(IF v.b THEN Scale ELSE 0)
    ELSE IF v.n > FloatMaxInt \/ v.n < -FloatMaxInt THEN Raise("OverflowError")
    ELSE PyFloat(v.n * Scale)

(***************************** json.loads ***********************************)
JsonFail == [ok |-> FALSE]
JsonOk(v, p) == [ok |-> TRUE, val |-> v, pos |-> p]

RECURSIVE SkipWs(_, _)
SkipWs(s, i) == IF i <= Len(s) /\ IsSpace(s[i]) THEN SkipWs(s, i + 1) ELSE i

(* whether the text w stands at position i of s *)
LiteralAt(s, i, w) == i + Len(w) - 1 <= Len(s) /\ SubSeq(s, i, i + Len(w) - 1) = w

(* the position of the next double quote at or after i (Len(s)+1 for none) *)
RECURSIVE ScanToQuote(_, _)
ScanToQuote(s, i) == IF i <= Len(s) /\ s[i] # "dq" THEN ScanToQuote(s, i + 1) ELSE i

(* a string literal opening at i: no escapes, no control character *)
ParseString(s, i) ==
    LET j == ScanToQuote(s, i + 1) IN
    IF j > Len(s) \/ \E k \in (i + 1)..(j - 1) : s[k] = "nl" THEN JsonFail
    ELSE JsonOk(PyStr(SubSeq(s, i + 1, j - 1)), j + 1)

(* a number literal at i: an optional minus, then 0 or a run of digits     *)
(* that does not start with 0, then optionally a point and digits.  An     *)
(* integer literal is a Python int, one with a fraction a float.           *)
ParseNumber(s, i) ==
    LET neg == s[i] = "-"
        sign == IF neg THEN -1 ELSE 1
        a == IF neg THEN i + 1 ELSE i
    IN  IF a > Len(s) \/ ~IsDigit(s[a]) THEN JsonFail
        ELSE LET b == IF s[a] = "0" THEN a + 1 ELSE ScanDigits(s, a)
                 c == IF b <= Len(s) /\ s[b] = "." THEN ScanDigits(s, b + 1) ELSE b
             IN  IF c > b + 1
                 THEN JsonOk(MkFloat(sign, DigitsVal(s, a, b), FracVal(s, b + 1, c)), c)
                 ELSE JsonOk(PyInt(sign * DigitsVal(s, a, b)), b)

RECURSIVE ParseValue(_, _), ParseElements(_, _, _), ParseMembers(_, _, _)

(* the value that starts at the first non-blank position at or after i0 *)
ParseValue(s, i0) ==
    LET i == SkipWs(s, i0) IN
    IF i > Len(s) THEN JsonFail
    ELSE IF s[i] = "{"
         THEN LET j == SkipWs(s, i + 1) IN
              IF j <= Len(s) /\ s[j] = "}" THEN JsonOk(PyDict(<<>>), j + 1)
              ELSE ParseMembers(s, j, <<>>)
    ELSE IF s[i] = "["
         THEN LET j == SkipWs(s, i + 1) IN
              IF j <= Len(s) /\ s[j] = "]" THEN JsonOk(PyList(<<>>), j + 1)
              ELSE ParseElements(s, j, <<>>)
    ELSE IF s[i] = "dq" THEN ParseString(s, i)
    ELSE IF s[i] = "-" \/ IsDigit(s[i]) THEN ParseNumber(s, i)
    ELSE IF LiteralAt(s, i, <<"n", "u", "l", "l">>) THEN JsonOk(None, i + 4)
    ELSE IF LiteralAt(s, i, <<"t", "r", "u", "e">>) THEN JsonOk(PyBool(TRUE), i + 4)
    ELSE IF LiteralAt(s, i, <<"f", "a", "l", "s", "e">>) THEN JsonOk(PyBool(FALSE), i + 5)
    ELSE JsonFail

(* the elements of an array from position i, acc holding those before *)
ParseElements(s, i, acc) ==
    LET v == ParseValue(s, i) IN
    IF ~v.ok THEN JsonFail
    ELSE LET e == SkipWs(s, v.pos)
             acc2 == Append(acc, v.val)
         IN  IF e > Len(s) THEN JsonFail
             ELSE IF s[e] = "]" THEN JsonOk(PyList(acc2), e + 1)
             ELSE IF s[e] = "," THEN ParseElements(s, SkipWs(s, e + 1), acc2)
             ELSE JsonFail

(* the members of an object from position i (blanks skipped), acc holding  *)
(* those before                                                            *)
ParseMembers(s, i, acc) ==
    IF i > Len(s) \/ s[i] # "dq" THEN JsonFail
    ELSE LET k == ParseString(s, i) IN
         IF ~k.ok THEN JsonFail
         ELSE LET c == SkipWs(s, k.pos) IN
              IF c > Len(s) \/ s[c] # ":" THEN JsonFail
              ELSE LET v == ParseValue(s, c + 1) IN
                   IF ~v.ok THEN JsonFail
                   ELSE LET e == SkipWs(s, v.pos)
                            acc2 == Append(acc, [k |-> k.val.s, v |-> v.val])
                        IN  IF e > Len(s) THEN JsonFail
                            ELSE IF s[e] = "}" THEN JsonOk(PyDict(acc2), e + 1)
                            ELSE IF s[e] = "," THEN ParseMembers(s, SkipWs(s, e + 1), acc2)
                            ELSE JsonFail

(* json.loads(s): ok = FALSE is JSONDecodeError *)
json_loads(s) ==
    LET r == ParseValue(s, 1) IN
    IF r.ok /\ SkipWs(s, r.pos) > Len(s) THEN [ok |-> TRUE, val |-> r.val]
    ELSE [ok |-> FALSE]

(* dict.get(key): the value of the last member named key, or None *)
DictGet(d, key) ==
    LET hits == {i \in 1..Len(d.kv) : d.kv[i].k = key} IN
    IF hits = {} THEN None
    ELSE d.kv[CHOOSE i \in hits : \A j \in hits : j <= i].v

(***************************** TradeData ************************************)
(* the chars of cleaned kept by re.sub(r'[^\d\.\-\+]', '', ...) *)
KeepPnlChar(c) == IsDigit(c) \/ c \in {".", "-", "+"}
NotComma(c) == c # ","

(* TradeData.parse_pnl_amount, the 'before' validator of pnl_amount *)
parse_pnl_amount(v) ==
    IF v = None \/ v = PyStr(<<>>) THEN None
    ELSE IF v.t \in {"int", "float", "bool"} THEN FloatOf(v)
    ELSE IF v.t = "str"
         THEN LET cleaned == SelectSeq(SelectSeq(v.s, NotComma), KeepPnlChar) IN
              IF cleaned # <<>>
              THEN LET r == ParseFloatStr(cleaned) IN IF r.ok THEN r.val ELSE None
              ELSE None
    ELSE None

(* a field declared Optional[str]: None or a str, nothing else is coerced *)
ValidOptStr(v) == v.t \in {"None", "str"}

(* a field declared Optional[float]: None, a float, an int or a bool in    *)
(* the float's range, or a str that spells a float                         *)
ValidOptFloat(v) ==
    \/ v.t \in {"None", "float", "bool"}
    \/ v.t = "int" /\ FloatOf(v).t = "float"
    \/ v.t = "str" /\ ParseFloatStr(Strip(v.s)).ok

(* the value an Optional[float] field holds after validation *)
CoerceOptFloat(v) ==
    IF v.t \in {"int", "bool"} THEN FloatOf(v)
    ELSE IF v.t = "str" THEN ParseFloatStr(Strip(v.s)).val
    ELSE v

StrFields == {"ticker", "timeframe", "direction", "pnl", "date_time", "reason_or_annotations"}
FloatFields == {"entry_price", "exit_price"}
StructuredFields == StrFields \cup FloatFields \cup {"pnl_amount"}

(* TradeData of keyword arguments kw: the validated model, or the exception its construction *)
(* raises.  An exception of the validator that is no ValueError leaves as  *)
(* it is; type errors of the fields are collected in a ValidationError.    *)
TradeData(kw) ==
    LET amount == parse_pnl_amount(kw.pnl_amount) IN
    IF amount.t = "raise" THEN amount
    ELSE IF \/ \E f \in StrFields \cup {"image_source", "ocr_confidence"} : ~ValidOptStr(kw[f])
            \/ \E f \in FloatFields : ~ValidOptFloat(kw[f])
            \/ kw.trade_id.t # "str" \/ kw.logged_at.t # "str"
         THEN Raise("ValidationError")
    ELSE [kw EXCEPT !.pnl_amount = amount,
                    !.entry_price = CoerceOptFloat(kw.entry_price),
                    !.exit_price = CoerceOptFloat(kw.exit_price)]
             @@ [t |-> "TradeData"]

(***************************** create_trade_record **************************)
Fence == <<"bt", "bt", "bt">>
FenceJson == <<"bt", "bt", "bt", "j", "s", "o", "n">>

(* the keys create_trade_record reads with data.get *)
Key == [ticker |-> <<"t", "i", "c", "k", "e", "r">>,
        timeframe |-> <<"t", "i", "m", "e", "f", "r", "a", "m", "e">>,
        entry_price |-> <<"e", "n", "t", "r", "y", "_", "p", "r", "i", "c", "e">>,
        exit_price |-> <<"e", "x", "i", "t", "_", "p", "r", "i", "c", "e">>,
        direction |-> <<"d", "i", "r", "e", "c", "t", "i", "o", "n">>,
        pnl |-> <<"p", "n", "l">>,
        pnl_amount |-> <<"p", "n", "l", "_", "a", "m", "o", "u", "n", "t">>,
        date_time |-> <<"d", "a", "t", "e", "_", "t", "i", "m", "e">>,
        reason_or_annotations |-> <<"r", "e", "a", "s", "o", "n", "_", "o", "r", "_", "a",
                                    "n", "n", "o", "t", "a", "t", "i", "o", "n", "s">>]

(* the decimal text of n >= 0 *)
RECURSIVE IntText(_)
IntText(n) == IF n < 10 THEN <<DigitChars[n + 1]>> ELSE IntText(n \div 10) \o <<DigitChars[(n % 10) + 1]>>

(* texts of JSON: a quoted string, a member, an object of one or two *)
Quoted(s) == <<"dq">> \o s \o <<"dq">>
Member(k, valueText) == Quoted(k) \o <<":">> \o valueText
Object1(m) == <<"{">> \o m \o <<"}">>
Object2(m1, m2) == <<"{">> \o m1 \o <<",", "sp">> \o m2 \o <<"}">>

TextNull == <<"n", "u", "l", "l">>
TextFloat == <<"3", "8", ".", "0", "7">>
TextInt == <<"5">>
TextHugeInt == IntText(FloatMaxInt + 1)
TextTrue == <<"t", "r", "u", "e">>
TextList == <<"[", "1", "]">>
TextSol == Quoted(<<"S", "O", "L">>)
DisplayPnl == <<"+", "3", "8", ".", "0", "7", "sp", "U", "S", "D">>
DisplayLoss == <<"-", "$", "1", ",", "2", "5", "0", ".", "5">>
DisplayNa == <<"n", "/", "a">>

ResponseGood == Object2(Member(Key.ticker, TextSol), Member(Key.pnl_amount, TextFloat))
ResponseFenced ==
    FenceJson \o <<"nl">> \o Object1(Member(Key.pnl_amount, Quoted(DisplayLoss))) \o <<"nl">> \o Fence
ResponseSorry == <<"s", "o", "r", "r", "y">>
ResponseList == TextList

(* the response with its back-ticks stripped (lines 141-145) *)
StripFence(ai_json) ==
    LET cleaned == Strip(ai_json) IN
    IF StartsWith(cleaned, FenceJson) THEN Strip(Slice(cleaned, 7, 3))
    ELSE IF StartsWith(cleaned, Fence) THEN Strip(Slice(cleaned, 3, 3))
    ELSE cleaned

(* data of lines 147-152: the parsed value, or the error dict *)
LoadData(cleaned) ==
    LET r == json_loads(cleaned) IN
    IF r.ok THEN r.val
    ELSE PyDict(<<[k |-> <<"e", "r", "r", "o", "r">>,
                   v |-> PyStr(<<"J", "S", "O", "N", "sp", "p", "a", "r", "s", "e",
                                 "sp", "e", "r", "r", "o", "r">>)]>>)

PipelineResponses == {ResponseGood, ResponseFenced, ResponseSorry, ResponseList}
ReadOnce == [r \in PipelineResponses |-> LoadData(StripFence(r))]

(* f"{conf:.1f}%", conf in tenths of a percent *)
FormatConfidence(conf) == IntText(conf \div 10) \o <<".", DigitChars[(conf % 10) + 1], "%">>

(* str(uuid.uuid4()) of the n-th draw: 36 characters *)
UuidText(n) ==
    [i \in 1..36 |-> IF i \in {9, 14, 19, 24} THEN "-"
                     ELSE IF i = 15 THEN "4"
                     ELSE DigitChars[((n + i) % 10) + 1]]

(* f"{now:%Y-%m-%d}" and now.isoformat(): a tick is one hour after the     *)
(* other, and the day changes at every second tick                         *)
DayOf(now) == now \div 2
DayText(now) == <<"2", "0", "2", "5", "-", "0", "7", "-", "0", DigitChars[DayOf(now) + 2]>>
IsoFormat(now) == DayText(now) \o <<"T", "0", DigitChars[(now % 2) + 1], ":", "0", "0", ":", "0", "0">>

(* os.path.basename of a path given by its components *)
Basename(path) == IF path = <<>> THEN <<>> ELSE path[Len(path)]

(* lines 141-152.  The responses the pipeline specifications use are read  *)
(* once, in ReadOnce, and the others at each call; the value is the same.  *)
ReadResponse(ai_json) ==
    IF ai_json \in DOMAIN ReadOnce THEN ReadOnce[ai_json] ELSE LoadData(StripFence(ai_json))

(* lines 154-168, for the data read from the response *)
RecordOf(data, image_path, ocr_info, uuid, now) ==
    IF data.t # "dict" THEN Raise("AttributeError")
    ELSE TradeData([trade_id |-> PyStr(SubSeq(UuidText(uuid), 1, 8)),
                    ticker |-> DictGet(data, Key.ticker),
                    timeframe |-> DictGet(data, Key.timeframe),
                    entry_price |-> DictGet(data, Key.entry_price),
                    exit_price |-> DictGet(data, Key.exit_price),
                    direction |-> DictGet(data, Key.direction),
                    pnl |-> DictGet(data, Key.pnl),
                    pnl_amount |-> DictGet(data, Key.pnl_amount),
                    date_time |-> DictGet(data, Key.date_time),
                    reason_or_annotations |-> DictGet(data, Key.reason_or_annotations),
                    image_source |-> PyStr(Basename(image_path)),
                    logged_at |-> PyStr(IsoFormat(now)),
                    ocr_confidence |-> PyStr(FormatConfidence(ocr_info.confidence))])

create_trade_record(ai_json, image_path, ocr_info, uuid, now) ==
    RecordOf(ReadResponse(ai_json), image_path, ocr_info, uuid, now)

(***************************** inputs ***************************************)
(* the texts a member's value is drawn from *)
ValueTexts ==
    {TextNull, TextFloat, TextInt, TextHugeInt, TextTrue, TextList, TextSol,
     Quoted(DisplayPnl), Quoted(DisplayLoss), Quoted(DisplayNa)}

(* response bodies, each with its kind: a JSON object, valid JSON that is  *)
(* no object, or text that is no JSON                                      *)
ObjectBodies ==
    {Object1(Member(Key[f], v)) : f \in DOMAIN Key, v \in ValueTexts}
    \cup {<<"{", "}">>,
          Object2(Member(Key.ticker, TextSol), Member(Key.pnl_amount, TextFloat)),
          Object2(Member(Key.pnl, Quoted(DisplayPnl)), Member(Key.pnl_amount, Quoted(DisplayPnl))),
          Object2(Member(Key.pnl_amount, TextInt), Member(Key.pnl_amount, TextNull))}
NonObjectBodies == {TextNull, TextFloat, TextInt, TextTrue, TextList, TextSol}
MalformedBodies ==
    {<<"s", "o", "r", "r", "y">>,
     <<"s", "o", "r", "r", "y", ",", "sp", "I", "sp", "c", "a", "n", "'", "t">>,
     <<"{">>, <<"{", "}", "sp", "x">>, <<"{", "dq", "a", "dq", "}">>, <<"[", "1", ",", "]">>}
Bodies ==
    {[text |-> b, kind |-> "object"] : b \in ObjectBodies}
    \cup {[text |-> b, kind |-> "nonobject"] : b \in NonObjectBodies}
    \cup {[text |-> b, kind |-> "malformed"] : b \in MalformedBodies}

Blanks == {<<>>, <<"nl">>}
Openers == {<<>>, Fence, FenceJson}
Closers == {<<>>, Fence}

(* a call of create_trade_record: the response is the body, wrapped or not *)
BuildCalls ==
    {[op |-> "create_trade_record",
      ai_json |-> pre \o open \o inner \o b.text \o inner \o close \o post,
      body |-> b.text, kind |-> b.kind, open |-> open, close |-> close] :
        b \in Bodies, pre \in Blanks, open \in Openers, inner \in Blanks,
        close \in Closers, post \in Blanks}

PnlChars == {"3", "0", ".", "-", "+", ",", "$", "sp"}
PnlStrings == UNION {[1..n -> PnlChars] : n \in 1..MaxStrLen}

(* the values pnl_amount arrives as *)
PnlInputs ==
    {None, PyStr(<<>>), PyList(<<>>), PyDict(<<>>), PyBool(TRUE), PyBool(FALSE),
     PyStr(DisplayPnl), PyStr(DisplayLoss), PyStr(DisplayNa)}
    \cup {PyStr(s) : s \in PnlStrings}
    \cup {PyInt(n) : n \in {0, 38, -5, FloatMaxInt, -FloatMaxInt, FloatMaxInt + 1, -FloatMaxInt - 1}}
    \cup {PyFloat(x) : x \in {0, 38 * Scale + 7 * (Scale \div 100), -Scale \div 2, Inf, -Inf}}
PnlCalls == {[op |-> "parse_pnl_amount", v |-> v] : v \in PnlInputs}

SampleImage == <<"shots", <<"a", ".", "p", "n", "g">>>>
SampleOcrInfo == [confidence |-> 875]

(***************************** the record builder alone *********************)
Pending == [t |-> "pending"]
NoFile == [t |-> "nofile"]
NoFiles == [d \in 0..DayOf(MaxClock) |-> NoFile]
Idle == [p \in {1, 2} |-> "idle"]
NoLocals == [p \in {1, 2} |-> None]

InitBuild ==
    /\ call \in BuildCalls \cup PnlCalls
    /\ ret = Pending
    /\ log = <<>> /\ artifacts = <<>> /\ summaries = NoFiles /\ clock = 0
    /\ pc = Idle /\ loc = NoLocals

(* create_trade_record(ai_json, image_path, ocr_info) *)
CreateTradeRecordCall ==
    /\ call.op = "create_trade_record" /\ ret = Pending
    /\ \E uuid \in 1..MaxIds :
         ret' = create_trade_record(call.ai_json, SampleImage, SampleOcrInfo, uuid, clock)
    /\ UNCHANGED <<log, artifacts, summaries, clock, call, pc, loc>>

(* TradeData.parse_pnl_amount(v) *)
ParsePnlAmountCall ==
    /\ call.op = "parse_pnl_amount" /\ ret = Pending
    /\ ret' = [t |-> "pnl", out |-> parse_pnl_amount(call.v)]
    /\ UNCHANGED <<log, artifacts, summaries, clock, call, pc, loc>>

(* TradeData.parse_pnl_amount applied to its own result *)
ParsePnlAmountAgain ==
    /\ call.op = "parse_pnl_amount" /\ ret.t = "pnl" /\ ret.out.t # "raise"
    /\ ret' = [t |-> "pnl2", out |-> ret.out, again |-> parse_pnl_amount(ret.out)]
    /\ UNCHANGED <<log, artifacts, summaries, clock, call, pc, loc>>

NextBuild == CreateTradeRecordCall \/ ParsePnlAmountCall \/ ParsePnlAmountAgain
SpecBuild == InitBuild /\ [][NextBuild]_vars

(***************************** save_trade_data ******************************)
TRADE_LOG_PATH == [dir |-> "logs", name |-> "trade_log.jsonl"]
(* OUTPUT_DIR/trade_<trade_id>_<now:%Y%m%d_%H%M%S>.json *)
ArtifactPath(trade, now) == [dir |-> "output", id |-> trade.trade_id.s, stamp |-> now]
(* SUMMARIES_DIR/daily_summary_<day>.json *)
SummaryPath(now) == [dir |-> "summaries", day |-> DayText(now)]

FieldNames ==
    {"trade_id", "ticker", "timeframe", "entry_price", "exit_price", "direction", "pnl",
     "pnl_amount", "date_time", "reason_or_annotations", "image_source", "logged_at",
     "ocr_confidence"}

(* trade.model_dump(): the dict of the fields; model_dump_json() and       *)
(* json.dump write this dict, and json.load reads the same dict back       *)
ModelDump(trade) == [f \in FieldNames |-> trade[f]]

(* t.get("pnl_amount") or 0 *)
AmountOrZero(t) == IF t.pnl_amount.t = "float" /\ t.pnl_amount.x # 0 THEN t.pnl_amount.x ELSE 0

(* sum(t.get("pnl_amount") or 0 for t in trades), in units of 1/Scale *)
(* the sum that leaves the last entry out *)
RECURSIVE TotalPnlMutant(_)
TotalPnlMutant(trades) ==
    IF Len(trades) <= 1 THEN 0
    ELSE TotalPnlMutant(SubSeq(trades, 1, Len(trades) - 1)) + AmountOrZero(trades[Len(trades) - 1])
RECURSIVE TotalPnl(_)
TotalPnl(trades) ==
    IF trades = <<>> THEN 0
    ELSE TotalPnl(SubSeq(trades, 1, Len(trades) - 1)) + AmountOrZero(trades[Len(trades)])

(* lines 195-205: the summary read from the day's file, or a new one *)
(* the summary whose created_at is set anew on every load *)
LoadSummaryMutant(file, now) ==
    [date |-> DayText(now), trades |-> IF file = NoFile THEN <<>> ELSE file.trades,
     total_trades |-> 0, total_pnl |-> 0, created_at |-> IsoFormat(now)]
LoadSummary(file, now) ==
    IF file # NoFile THEN file
    ELSE [date |-> DayText(now), trades |-> <<>>, total_trades |-> 0, total_pnl |-> 0,
          created_at |-> IsoFormat(now)]

(* lines 206-209: the summary with the trade appended and the totals redone *)
UpdateSummary(summary, trade, now) ==
    LET trades == Append(summary.trades, ModelDump(trade)) IN
    [date |-> summary.date, trades |-> trades, total_trades |-> Len(trades),
     total_pnl |-> TotalPnl(trades), created_at |-> summary.created_at,
     updated_at |-> IsoFormat(now)]

(* line 176-177: the log after the line of the trade is written in mode "a" *)
(* the log opened in mode "w": the line replaces what was there *)
WriteLogMutant(lines, trade) == <<ModelDump(trade)>>
WriteLog(lines, trade) == Append(lines, ModelDump(trade))

(* the artifact written in mode "jsonl" as well *)
WantsArtifactMutant(mode) == mode \in {"both", "json", "jsonl"}
(* line 181 *)
WantsArtifact(mode) == mode \in {"both", "json"}
(* the aggregate left out in mode "jsonl" *)
WantsSummaryMutant(mode) == mode = "both"
(* line 191 *)
WantsSummary(mode) == mode \in {"both", "jsonl"}

Saved(files) == [t |-> "saved", files |-> files]

(* The files as a record fs = [log, artifacts, summaries].  fail names the *)
(* step whose file operation raises OSError ("none": no step does); a step *)
(* that raises writes nothing.  The result is the files after the call and *)
(* out: the returned list `saved`, or the exception.                       *)
save_trade_data(fs, trade, mode, now, fail) ==
    IF fail = "log" THEN fs @@ [out |-> Raise("OSError")]
    ELSE
    LET fs1 == [fs EXCEPT !.log = WriteLog(@, trade)]
        saved1 == <<TRADE_LOG_PATH>>
        fp == ArtifactPath(trade, now)
    IN
    IF WantsArtifact(mode) /\ fail = "artifact" THEN fs1 @@ [out |-> Raise("OSError")]
    ELSE
    LET fs2 == IF WantsArtifact(mode)
               THEN [fs1 EXCEPT !.artifacts = (fp :> ModelDump(trade)) @@ @]
               ELSE fs1
        saved2 == IF WantsArtifact(mode) THEN Append(saved1, fp) ELSE saved1
        day == DayOf(now)
    IN
    IF WantsSummary(mode) /\ fail = "summary" THEN fs2 @@ [out |-> Raise("OSError")]
    ELSE IF WantsSummary(mode)
         THEN [fs2 EXCEPT !.summaries[day] =
                              UpdateSummary(LoadSummary(fs2.summaries[day], now), trade, now)]
              @@ [out |-> Saved(Append(saved2, SummaryPath(now)))]
         ELSE fs2 @@ [out |-> Saved(saved2)]

Files == [log |-> log, artifacts |-> artifacts, summaries |-> summaries]
SetFiles(r) == log' = r.log /\ artifacts' = r.artifacts /\ summaries' = r.summaries

(***************************** process_single_image *************************)
(* What the world answers during one run of process_single_image:          *)
(*   ocr   extract_text_from_image: the confidence bundle, or its exception *)
(*   ai    analyze_trade_with_ai: the response text, or its exception       *)
(*   uuid  the draw of uuid.uuid4()                                         *)
(*   fail  the step of save_trade_data whose file operation fails           *)
OcrOk == [t |-> "ocr", info |-> [confidence |-> 875]]
Fails == {"none", "log", "artifact", "summary"}
Envs ==
    {[ocr |-> Raise(e), ai |-> None, uuid |-> 1, fail |-> "none"] :
        e \in {"FileNotFoundError", "UnidentifiedImageError"}}
    \cup {[ocr |-> OcrOk, ai |-> Raise("APIError"), uuid |-> 1, fail |-> "none"],
          [ocr |-> OcrOk, ai |-> PyStr(ResponseList), uuid |-> 1, fail |-> "none"],
          [ocr |-> OcrOk, ai |-> PyStr(ResponseSorry), uuid |-> MaxIds, fail |-> "none"]}
    \cup {[ocr |-> OcrOk, ai |-> PyStr(ResponseGood), uuid |-> 1, fail |-> f] : f \in Fails}

Modes == {"both", "json", "jsonl", "log-only"}

(* lines 233-241: what the run gives back once save_trade_data has, r being *)
(* the files after the save and its result                                 *)
SummaryOf(r, trade, image_path, env) ==
    IF r.out.t = "raise" THEN r
    ELSE [r EXCEPT !.out = [t |-> "summary",
                            trade_id |-> trade.trade_id,
                            image |-> PyStr(Basename(image_path)),
                            ticker |-> trade.ticker,
                            direction |-> trade.direction,
                            pnl_amount |-> trade.pnl_amount,
                            confidence |-> env.ocr.info.confidence,
                            saved_files |-> r.out.files]]

(* lines 228-241, trade being what create_trade_record gave or raised *)
SaveRecord(fs, trade, image_path, save_mode, now, env) ==
    IF trade.t = "raise" THEN fs @@ [out |-> trade]
    ELSE SummaryOf(save_trade_data(fs, trade, save_mode, now, env.fail), trade, image_path, env)

process_single_image(fs, image_path, save_mode, now, env) ==
    IF env.ocr.t = "raise" THEN fs @@ [out |-> env.ocr]
    ELSE IF env.ai.t = "raise" THEN fs @@ [out |-> env.ai]
    ELSE SaveRecord(fs, create_trade_record(env.ai.s, image_path, env.ocr.info, env.uuid, now),
                    image_path, save_mode, now, env)

(***************************** process_multiple_images **********************)
UpperChars == <<"A", "B", "C", "D", "E", "F", "G", "H", "I", "J", "K", "L", "M",
                "N", "O", "P", "Q", "R", "S", "T", "U", "V", "W", "X", "Y", "Z">>
LowerChars == <<"a", "b", "c", "d", "e", "f", "g", "h", "i", "j", "k", "l", "m",
                "n", "o", "p", "q", "r", "s", "t", "u", "v", "w", "x", "y", "z">>
LowerTable ==
    [c \in {UpperChars[i] : i \in 1..26} |-> LowerChars[CHOOSE i \in 1..26 : UpperChars[i] = c]]
LowerChar(c) == IF c \in DOMAIN LowerTable THEN LowerTable[c] ELSE c
(* str.lower() *)
Lower(s) == [i \in 1..Len(s) |-> LowerChar(s[i])]

(* the extensions without their dots *)
ExtsMutant ==
    {<<"p", "n", "g">>, <<"j", "p", "g">>, <<"j", "p", "e", "g">>,
     <<"b", "m", "p">>, <<"g", "i", "f">>, <<"t", "i", "f", "f">>}
(* line 251 *)
Exts ==
    {<<".", "p", "n", "g">>, <<".", "j", "p", "g">>, <<".", "j", "p", "e", "g">>,
     <<".", "b", "m", "p">>, <<".", "g", "i", "f">>, <<".", "t", "i", "f", "f">>}
(* f.lower().endswith(tuple(exts)) *)
IsImageName(f) == LET l == Lower(f) IN \E e \in Exts : EndsWith(l, e)

(* line 252: the paths of the image files of the folder, in listing order *)
ListImages(folder) ==
    LET names == SelectSeq(folder.listing, IsImageName) IN
    [i \in 1..Len(names) |-> <<folder.path, names[i]>>]

(* the loop that gives up at the first image that fails *)
RECURSIVE BatchLoopMutant(_, _, _, _, _, _, _)
BatchLoopMutant(fs, images, i, save_mode, now, envs, results) ==
    IF i > Len(images) THEN fs @@ [out |-> results]
    ELSE
    LET r == process_single_image(fs, images[i], save_mode, now, envs[i])
        fs2 == [log |-> r.log, artifacts |-> r.artifacts, summaries |-> r.summaries]
    IN
    IF r.out.t = "raise"
    THEN fs2 @@ [out |-> [results EXCEPT !.details = Append(@, [t |-> "failed",
                                                          image |-> PyStr(Basename(images[i])),
                                                          error |-> r.out.e]),
                                         !.fail = @ + 1]]
    ELSE BatchLoopMutant(fs2, images, i + 1, save_mode, now, envs,
                         [results EXCEPT !.details = Append(@, r.out), !.ok = @ + 1])

(* lines 257-264, from image i on; BatchStep is the body of the loop once   *)
(* process_single_image has given r, the files it left and its result      *)
RECURSIVE BatchLoop(_, _, _, _, _, _, _), BatchStep(_, _, _, _, _, _, _)
BatchLoop(fs, images, i, save_mode, now, envs, results) ==
    IF i > Len(images) THEN fs @@ [out |-> results]
    ELSE BatchStep(process_single_image(fs, images[i], save_mode, now, envs[i]),
                   images, i, save_mode, now, envs, results)

BatchStep(r, images, i, save_mode, now, envs, results) ==
    BatchLoop([log |-> r.log, artifacts |-> r.artifacts, summaries |-> r.summaries],
              images, i + 1, save_mode, now, envs,
              IF r.out.t = "raise"
              THEN [results EXCEPT !.details = Append(@, [t |-> "failed",
                                                         image |-> PyStr(Basename(images[i])),
                                                         error |-> r.out.e]),
                                   !.fail = @ + 1]
              ELSE [results EXCEPT !.details = Append(@, r.out), !.ok = @ + 1])

process_multiple_images(fs, folder, save_mode, now, envs) ==
    IF ~folder.isdir THEN fs @@ [out |-> [t |-> "error", error |-> "Folder not found"]]
    ELSE
    LET images == ListImages(folder) IN
    IF images = <<>> THEN fs @@ [out |-> [t |-> "error", error |-> "No image files found"]]
    ELSE BatchLoop(fs, images, 1, save_mode, now, envs,
                   [t |-> "batch", total |-> Len(images), ok |-> 0, fail |-> 0, details |-> <<>>])

(***************************** the files, one save after the other **********)
NotCalled == [op |-> "none"]

Init ==
    /\ log = <<>> /\ artifacts = <<>> /\ summaries = NoFiles /\ clock = 0
    /\ call = NotCalled /\ ret = Pending
    /\ pc = Idle /\ loc = NoLocals

(* time passes *)
Tick ==
    /\ clock < MaxClock
    /\ clock' = clock + 1
    /\ UNCHANGED <<log, artifacts, summaries, call, ret, pc, loc>>

(* the saves tried: every response under every mode, and every failing step *)
SaveCalls ==
    {[r |-> r, uuid |-> 1, mode |-> m, fail |-> "none"] :
        r \in {ResponseGood, ResponseFenced, ResponseSorry}, m \in Modes}
    \cup {[r |-> ResponseGood, uuid |-> MaxIds, mode |-> "both", fail |-> f] : f \in Fails}

(* save_trade_data(trade, mode), the trade built from a response *)
SaveTradeData ==
    /\ Len(log) < MaxLog
    /\ \E c \in SaveCalls :
         \E trade \in {create_trade_record(c.r, SampleImage, SampleOcrInfo, c.uuid, clock)} :
         \E res \in {save_trade_data(Files, trade, c.mode, clock, c.fail)} :
             /\ SetFiles(res)
             /\ call' = [op |-> "save_trade_data", trade |-> trade, mode |-> c.mode,
                         fail |-> c.fail]
             /\ ret' = res.out
    /\ UNCHANGED <<clock, pc, loc>>

Next == SaveTradeData \/ Tick
Spec == Init /\ [][Next]_vars

(***************************** the pipeline *********************************)
ImageNames ==
    << <<"a", ".", "p", "n", "g">>, <<"b", ".", "J", "P", "G">>,
       <<"c", ".", "T", "i", "f", "f">>, <<"d", ".", "j", "p", "e", "g">>,
       <<"e", ".", "B", "M", "P">>, <<"f", ".", "g", "i", "f">> >>
OtherNames ==
    << <<"n", ".", "t", "x", "t">>, <<"p", "n", "g">>, <<"a", ".", "p", "n", "g", ".", "b", "a", "k">> >>

(* what os.path.isdir and os.listdir answer for the folders tried *)
FolderOf(n) ==
    [path |-> "shots", isdir |-> TRUE,
     listing |-> <<OtherNames[1]>> \o SubSeq(ImageNames, 1, n) \o <<OtherNames[2]>>]
Folders ==
    {[path |-> "nowhere", isdir |-> FALSE, listing |-> <<>>],
     [path |-> "empty", isdir |-> TRUE, listing |-> <<>>],
     [path |-> "docs", isdir |-> TRUE, listing |-> OtherNames]}
    \cup {FolderOf(n) : n \in 1..MaxBatch}

(* the answers of the world tried in a batch *)
BatchEnvs ==
    {[ocr |-> Raise("UnidentifiedImageError"), ai |-> None, uuid |-> 1, fail |-> "none"],
     [ocr |-> OcrOk, ai |-> PyStr(ResponseList), uuid |-> 1, fail |-> "none"],
     [ocr |-> OcrOk, ai |-> PyStr(ResponseGood), uuid |-> 1, fail |-> "none"],
     [ocr |-> OcrOk, ai |-> PyStr(ResponseGood), uuid |-> MaxIds, fail |-> "artifact"]}

(* process_single_image(image_path, save_mode) *)
ProcessSingleImage ==
    /\ Len(log) < MaxLog
    /\ \E mode \in Modes, env \in Envs :
         \E res \in {process_single_image(Files, SampleImage, mode, clock, env)} :
             /\ SetFiles(res)
             /\ call' = [op |-> "process_single_image", image_path |-> SampleImage,
                         save_mode |-> mode, env |-> env]
             /\ ret' = res.out
    /\ UNCHANGED <<clock, pc, loc>>

(* process_multiple_images(folder, save_mode) *)
ProcessMultipleImages ==
    /\ Len(log) < MaxLog
    /\ \E folder \in Folders, mode \in Modes :
         LET n == Len(ListImages(folder)) IN
         /\ Len(log) + n <= MaxLog
         /\ \E envs \in [1..n -> BatchEnvs] :
              \E res \in {process_multiple_images(Files, folder, mode, clock, envs)} :
                  /\ SetFiles(res)
                  /\ call' = [op |-> "process_multiple_images", folder |-> folder,
                              save_mode |-> mode, envs |-> envs]
                  /\ ret' = res.out
    /\ UNCHANGED <<clock, pc, loc>>

NextPipe == ProcessSingleImage \/ ProcessMultipleImages
SpecPipe == Init /\ [][NextPipe]_vars

(***************************** two saves at once *****************************)
(* Two runs of save_trade_data, each in a process of its own, on the same   *)
(* files.  A step is one file operation of lines 174-212; what a run holds  *)
(* between its steps (summary, saved) is in loc.  A file opened with "w" is *)
(* empty until the dump is written; a dump written over what another run    *)
(* wrote since the file was opened leaves the new text or, when the other   *)
(* text was longer, the new text followed by the rest of the other.         *)
Procs == {1, 2}
Truncated == [t |-> "truncated"]
Garbled == [t |-> "garbled"]
ConcTrade(p) ==
    create_trade_record(IF p = 1 THEN ResponseGood ELSE ResponseFenced,
                        SampleImage, SampleOcrInfo, p, 0)
EarlierTrade == create_trade_record(ResponseSorry, SampleImage, SampleOcrInfo, 1, 0)

InitConc ==
    /\ clock = 0
    /\ \E modes \in [Procs -> Modes], earlier \in BOOLEAN :
         /\ call = [op |-> "concurrent", modes |-> modes, earlier |-> earlier]
         /\ \E fs \in {IF earlier
                        THEN save_trade_data([log |-> <<>>, artifacts |-> <<>>,
                                              summaries |-> NoFiles],
                                             EarlierTrade, "both", 0, "none")
                        ELSE [log |-> <<>>, artifacts |-> <<>>, summaries |-> NoFiles]} :
              log = fs.log /\ artifacts = fs.artifacts /\ summaries = fs.summaries
         /\ loc = [p \in Procs |-> [trade |-> ConcTrade(p), mode |-> modes[p],
                                    summary |-> None, saved |-> <<>>]]
    /\ ret = [p \in Procs |-> Pending]
    /\ pc = [p \in Procs |-> "log"]

(* where a run goes after the log, and after the artifact *)
AfterLog(mode) ==
    IF WantsArtifact(mode) THEN "artifact" ELSE IF WantsSummary(mode) THEN "exists" ELSE "return"
AfterArtifact(mode) == IF WantsSummary(mode) THEN "exists" ELSE "return"

(* lines 176-178: the line is written to a file opened in mode "a" by one  *)
(* write at the close of the file, which the system appends as a whole     *)
LogAppend(p) ==
    /\ pc[p] = "log"
    /\ log' = WriteLog(log, loc[p].trade)
    /\ loc' = [loc EXCEPT ![p].saved = Append(@, TRADE_LOG_PATH)]
    /\ pc' = [pc EXCEPT ![p] = AfterLog(loc[p].mode)]
    /\ UNCHANGED <<artifacts, summaries, clock, call, ret>>

(* lines 183-188 *)
ArtifactWrite(p) ==
    /\ pc[p] = "artifact"
    /\ artifacts' = (ArtifactPath(loc[p].trade, clock) :> ModelDump(loc[p].trade)) @@ artifacts
    /\ loc' = [loc EXCEPT ![p].saved = Append(@, ArtifactPath(loc[p].trade, clock))]
    /\ pc' = [pc EXCEPT ![p] = AfterArtifact(loc[p].mode)]
    /\ UNCHANGED <<log, summaries, clock, call, ret>>

(* line 195, and lines 199-205 when the file is not there *)
SummaryExists(p) ==
    /\ pc[p] = "exists"
    /\ IF summaries[DayOf(clock)] # NoFile
       THEN pc' = [pc EXCEPT ![p] = "load"] /\ loc' = loc
       ELSE /\ pc' = [pc EXCEPT ![p] = "open"]
            /\ loc' = [loc EXCEPT ![p].summary =
                           UpdateSummary(LoadSummary(NoFile, clock), loc[p].trade, clock)]
    /\ UNCHANGED <<log, artifacts, summaries, clock, call, ret>>

(* lines 196-197 and 206-209: json.load of a text that is no JSON raises *)
SummaryLoad(p) ==
    /\ pc[p] = "load"
    /\ IF summaries[DayOf(clock)] \in {Truncated, Garbled}
       THEN /\ pc' = [pc EXCEPT ![p] = "failed"]
            /\ ret' = [ret EXCEPT ![p] = Raise("JSONDecodeError")]
            /\ loc' = loc
       ELSE /\ pc' = [pc EXCEPT ![p] = "open"]
            /\ loc' = [loc EXCEPT ![p].summary =
                           UpdateSummary(LoadSummary(summaries[DayOf(clock)], clock),
                                         loc[p].trade, clock)]
            /\ ret' = ret
    /\ UNCHANGED <<log, artifacts, summaries, clock, call>>

(* line 210 *)
SummaryOpen(p) ==
    /\ pc[p] = "open"
    /\ summaries' = [summaries EXCEPT ![DayOf(clock)] = Truncated]
    /\ pc' = [pc EXCEPT ![p] = "dump"]
    /\ UNCHANGED <<log, artifacts, clock, call, ret, loc>>

(* lines 211-212 *)
SummaryDump(p) ==
    /\ pc[p] = "dump"
    /\ \/ summaries' = [summaries EXCEPT ![DayOf(clock)] = loc[p].summary]
       \/ /\ summaries[DayOf(clock)] # Truncated
          /\ summaries' = [summaries EXCEPT ![DayOf(clock)] = Garbled]
    /\ loc' = [loc EXCEPT ![p].saved = Append(@, SummaryPath(clock))]
    /\ pc' = [pc EXCEPT ![p] = "return"]
    /\ UNCHANGED <<log, artifacts, clock, call, ret>>

(* line 214 *)
SaveReturn(p) ==
    /\ pc[p] = "return"
    /\ ret' = [ret EXCEPT ![p] = Saved(loc[p].saved)]
    /\ pc' = [pc EXCEPT ![p] = "done"]
    /\ UNCHANGED <<log, artifacts, summaries, clock, call, loc>>

NextConc ==
    \E p \in Procs :
        \/ LogAppend(p) \/ ArtifactWrite(p) \/ SummaryExists(p) \/ SummaryLoad(p)
        \/ SummaryOpen(p) \/ SummaryDump(p) \/ SaveReturn(p)
SpecConc == InitConc /\ [][NextConc]_vars

(***************************** properties of the record builder *************)
Built == call.op = "create_trade_record" /\ ret # Pending

(* C3: for every response text create_trade_record returns a Trade Record  *)
(* with a non-empty trade_id and logged_at and never fails; when the       *)
(* response body is no JSON, every structured field of the record is null. *)
C3_RecordForEveryResponse ==
    Built =>
        /\ ret.t = "TradeData"
        /\ ret.trade_id.s # <<>>
        /\ ret.logged_at.s # <<>>
        /\ call.kind = "malformed" => \A f \in StructuredFields : ret[f] = None

(* C8: parse_pnl_amount never fails and is idempotent: the result is a     *)
(* float or None, a float passes through with its value, "+38.07 USD" and  *)
(* 38.07 both give 38.07, and parsing a result again gives the same result. *)
C8_ParsePnlAmountTotalIdempotent ==
    (call.op = "parse_pnl_amount" /\ ret # Pending) =>
        /\ ret.out.t \in {"None", "float"}
        /\ call.v.t = "float" => ret.out = call.v
        /\ call.v \in {PyStr(DisplayPnl), PyFloat(38 * Scale + 7 * (Scale \div 100))}
              => ret.out = PyFloat(38 * Scale + 7 * (Scale \div 100))
        /\ ret.t = "pnl2" => ret.again = ret.out

(* C10: a JSON object wrapped in a fenced code block, with or without the  *)
(* language tag, the closing delimiter and surrounding whitespace, is      *)
(* unwrapped without losing a character of the body, so the record built   *)
(* is the record built from the body alone.                                *)
C10_FenceStripped ==
    (Built /\ call.kind = "object" /\ call.open # <<>>) =>
        /\ StripFence(call.ai_json) = call.body
        /\ \E uuid \in 1..MaxIds :
              ret = create_trade_record(call.body, SampleImage, SampleOcrInfo, uuid, clock)

(***************************** properties of save_trade_data ****************)
(* the pnl_amount of an entry, null counted as 0 *)
NullAsZero(t) == IF t.pnl_amount = None THEN 0 ELSE t.pnl_amount.x
(* the sum of the entries from the i-th on *)
RECURSIVE SumFrom(_, _)
SumFrom(trades, i) ==
    IF i > Len(trades) THEN 0 ELSE NullAsZero(trades[i]) + SumFrom(trades, i + 1)

Days == DOMAIN summaries
(* a step that is a call of save_trade_data which returned its list *)
SaveReturned == clock' = clock /\ call'.op = "save_trade_data" /\ ret'.t = "saved"

(* C1: in every daily aggregate built by save_trade_data, across every     *)
(* sequence of saves, total_pnl is the sum of pnl_amount over the entries  *)
(* of trades, a null pnl_amount counted as 0.                              *)
C1_TotalPnlIsSum ==
    \A d \in Days :
        summaries[d] # NoFile => summaries[d].total_pnl = SumFrom(summaries[d].trades, 1)

(* an aggregate of two entries, one with a null amount, with a total that is not 0 *)
C1_Witness ==
    \E d \in Days :
        /\ summaries[d] # NoFile
        /\ Len(summaries[d].trades) = 2
        /\ \E i, j \in 1..2 : /\ summaries[d].trades[i].pnl_amount = None
                               /\ summaries[d].trades[j].pnl_amount # None
        /\ summaries[d].total_pnl # 0

(* C6: a save that returns has appended exactly one line, the record, to   *)
(* the log and left the earlier lines alone; it has written the artifact   *)
(* file exactly when the mode asks for artifact output and updated the     *)
(* day's aggregate exactly when the mode asks for aggregate output; the    *)
(* list returned names the locations touched: log, artifact, aggregate.    *)
C6_SaveTouchesWhatModeSelects ==
    [][SaveReturned =>
        LET trade == call'.trade
            line == ModelDump(trade)
            fp == ArtifactPath(trade, clock)
            day == DayOf(clock)
            json == call'.mode \in {"both", "json"}
            jsonl == call'.mode \in {"both", "jsonl"}
        IN  /\ log' = log \o <<line>>
            /\ IF json
               THEN /\ DOMAIN artifacts' = DOMAIN artifacts \cup {fp}
                    /\ artifacts'[fp] = line
                    /\ \A q \in DOMAIN artifacts \ {fp} : artifacts'[q] = artifacts[q]
               ELSE artifacts' = artifacts
            /\ IF jsonl
               THEN /\ summaries'[day] # NoFile
                    /\ summaries'[day].trades[Len(summaries'[day].trades)] = line
                    /\ \A d \in Days \ {day} : summaries'[d] = summaries[d]
               ELSE summaries' = summaries
            /\ ret'.files = <<TRADE_LOG_PATH>>
                              \o (IF json THEN <<fp>> ELSE <<>>)
                              \o (IF jsonl THEN <<SummaryPath(clock)>> ELSE <<>>)
    ]_vars

(* a save in mode "both" onto a log that held a line already *)
C6_Witness ==
    /\ call.op = "save_trade_data" /\ call.mode = "both"
    /\ ret.t = "saved" /\ Len(ret.files) = 3
    /\ Len(log) = 2

(* C9: every step keeps the entries of an existing aggregate as a prefix,  *)
(* adds at most the record being saved, as the last entry, keeps           *)
(* total_trades equal to the length of trades, and keeps created_at, which *)
(* is the time the aggregate was first written.                            *)
C9_AggregateGrowsInOrder ==
    [][\A d \in Days :
        LET old == summaries[d]
            new == summaries'[d]
        IN  /\ new # NoFile => new.total_trades = Len(new.trades)
            /\ (old = NoFile /\ new # NoFile) =>
                    /\ new.trades = <<ModelDump(call'.trade)>>
                    /\ new.created_at = IsoFormat(clock)
            /\ old # NoFile =>
                    /\ new # NoFile
                    /\ new.created_at = old.created_at
                    /\ \/ new = old
                       \/ new.trades = Append(old.trades, ModelDump(call'.trade))
    ]_vars

(* an aggregate updated a second time, later than it was created *)
C9_Witness ==
    \E d \in Days :
        /\ summaries[d] # NoFile
        /\ Len(summaries[d].trades) = 2
        /\ summaries[d].created_at # summaries[d].updated_at
        /\ summaries[d].trades[1] # summaries[d].trades[2]

(***************************** properties of the pipeline *******************)
(* the extensions the batch recognizes, as the contract lists them *)
Recognized(f) ==
    \E e \in {<<".", "p", "n", "g">>, <<".", "j", "p", "g">>, <<".", "j", "p", "e", "g">>,
               <<".", "b", "m", "p">>, <<".", "g", "i", "f">>, <<".", "t", "i", "f", "f">>} :
        /\ Len(f) >= Len(e)
        /\ \A i \in 1..Len(e) : LowerChar(f[Len(f) - Len(e) + i]) = e[i]
RecognizedIn(folder) == SelectSeq(folder.listing, Recognized)

(* the runs of process_single_image on the images from the i-th on, each  *)
(* on the files the run before it left                                     *)
RECURSIVE Attempts(_, _, _, _, _, _)
Attempts(fs, images, i, save_mode, now, envs) ==
    IF i > Len(images) THEN <<>>
    ELSE LET r == process_single_image(fs, images[i], save_mode, now, envs[i]) IN
         <<r>> \o Attempts([log |-> r.log, artifacts |-> r.artifacts, summaries |-> r.summaries],
                           images, i + 1, save_mode, now, envs)

(* C2: a batch on a folder with n >= 1 recognized images attempts each of  *)
(* them once, in listing order, each on the files the attempts before it   *)
(* left, whether or not those failed; the result has total = n, ok + fail  *)
(* = n and n details, the i-th being the summary of the i-th image if its  *)
(* run succeeded and its name and error message if it failed.              *)
C2_BatchAttemptsEveryImage ==
    [][(call'.op = "process_multiple_images" /\ call'.folder.isdir
          /\ RecognizedIn(call'.folder) # <<>>) =>
        \E names \in {RecognizedIn(call'.folder)} :
        \E run \in {Attempts(Files, [i \in 1..Len(names) |-> <<call'.folder.path, names[i]>>],
                              1, call'.save_mode, clock, call'.envs)} :
        \E failed \in {{i \in 1..Len(names) : run[i].out.t = "raise"}} :
            /\ ret'.t = "batch"
            /\ ret'.total = Len(names)
            /\ ret'.fail = Cardinality(failed)
            /\ ret'.ok + ret'.fail = Len(names)
            /\ Len(ret'.details) = Len(names)
            /\ \A i \in 1..Len(names) :
                  IF i \in failed
                  THEN ret'.details[i] = [t |-> "failed", image |-> PyStr(names[i]),
                                          error |-> run[i].out.e]
                  ELSE ret'.details[i] = run[i].out
            /\ log' = run[Len(names)].log
            /\ artifacts' = run[Len(names)].artifacts
            /\ summaries' = run[Len(names)].summaries
    ]_vars

(* a batch whose first image failed and whose second was saved *)
C2_Witness ==
    /\ call.op = "process_multiple_images"
    /\ ret.t = "batch" /\ ret.total = 2 /\ ret.ok = 1 /\ ret.fail = 1
    /\ ret.details[1].t = "failed" /\ ret.details[2].t = "summary"
    /\ log # <<>>

(* the stage in which the run of process_single_image just made failed *)
FailedStage ==
    IF call'.env.ocr.t = "raise" THEN "ocr"
    ELSE IF call'.env.ai.t = "raise" THEN "structuring"
    ELSE IF ret'.e = "OSError" THEN "persistence"
    ELSE "building"
(* the run just made returned its summary, and every sink the mode selects *)
(* holds the record of that summary                                        *)
SummaryAndSinks ==
    /\ ret'.t = "summary"
    /\ Len(log') = Len(log) + 1
    /\ LET line == log'[Len(log')]
           day == DayOf(clock)
       IN  /\ line.trade_id = ret'.trade_id
           /\ SubSeq(log', 1, Len(log)) = log
           /\ call'.save_mode \in {"both", "json"} =>
                 \E fp \in DOMAIN artifacts' : fp.id = line.trade_id.s /\ artifacts'[fp] = line
           /\ call'.save_mode \in {"both", "jsonl"} =>
                 /\ summaries'[day] # NoFile
                 /\ summaries'[day].trades[Len(summaries'[day].trades)] = line

(* C4 as claimed: a run of process_single_image that fails, in whichever   *)
(* stage, has written nothing to the log, the artifacts or the aggregate;  *)
(* a run that returns its summary has the record in every selected sink.   *)
C4_AllOrNothing ==
    [][call'.op = "process_single_image" =>
        IF ret'.t = "raise"
        THEN UNCHANGED <<log, artifacts, summaries>>
        ELSE SummaryAndSinks
    ]_vars

(* C4 amended: a run that fails in OCR, in the structuring call or in      *)
(* building the record has written nothing.  A run that fails in           *)
(* persistence has written the sinks that come before the failing one, in  *)
(* the order log, artifact, aggregate, and no other: the log line stays    *)
(* when the artifact or the aggregate cannot be written, the artifact      *)
(* stays when the aggregate cannot.  A run that returns its summary has    *)
(* the record in every selected sink.                                      *)
C4_FailureKeepsEarlierSinks ==
    [][call'.op = "process_single_image" =>
        IF ret'.t # "raise" THEN SummaryAndSinks
        ELSE IF FailedStage # "persistence" \/ call'.env.fail = "log"
        THEN UNCHANGED <<log, artifacts, summaries>>
        ELSE /\ Len(log') = Len(log) + 1
             /\ SubSeq(log', 1, Len(log)) = log
             /\ summaries' = summaries
             /\ IF call'.env.fail = "artifact"
                THEN artifacts' = artifacts
                ELSE call'.save_mode = "both" =>
                       \E fp \in DOMAIN artifacts' : artifacts'[fp] = log'[Len(log')]
    ]_vars

(* the artifact could not be written: the caller has the error, the log the line *)
C4_Witness ==
    /\ call.op = "process_single_image" /\ call.env.fail = "artifact"
    /\ ret = Raise("OSError")
    /\ Len(log) = 1 /\ artifacts = <<>>

(* C7: a batch on a path that is no directory answers "Folder not found",  *)
(* a batch on a directory without a file of a recognized image extension   *)
(* answers "No image files found"; either way no image is processed and    *)
(* the log, the artifacts and the aggregates are as they were.             *)
C7_BatchRefusesWithoutWriting ==
    [][(call'.op = "process_multiple_images"
          /\ (~call'.folder.isdir \/ RecognizedIn(call'.folder) = <<>>)) =>
        /\ ret' = [t |-> "error",
                   error |-> IF call'.folder.isdir THEN "No image files found"
                             ELSE "Folder not found"]
        /\ UNCHANGED <<log, artifacts, summaries>>
    ]_vars

(* a folder of files that are no images, refused after an earlier save *)
C7_Witness ==
    /\ call.op = "process_multiple_images"
    /\ call.folder.isdir /\ call.folder.listing # <<>>
    /\ ret.t = "error" /\ ret.error = "No image files found"
    /\ log # <<>>

(***************************** properties of two saves at once **************)
(* the lines of the log that are the record of run p *)
LinesOf(p) == {i \in 1..Len(log) : log[i] = ModelDump(loc[p].trade)}
WroteLog(p) == pc[p] # "log"
BothAggregate == \A p \in Procs : WantsSummary(loc[p].mode)

(* C5: whatever the interleaving of two saves, the log holds exactly one   *)
(* line for each record whose run has passed its append, after the lines   *)
(* that were there, so once both saves have completed it ends with one     *)
(* line for each of the two records.                                       *)
C5_LogKeepsEveryLine ==
    /\ \A p \in Procs : Cardinality(LinesOf(p)) = IF WroteLog(p) THEN 1 ELSE 0
    /\ Len(log) = Cardinality({p \in Procs : WroteLog(p)}) + (IF call.earlier THEN 1 ELSE 0)
    /\ call.earlier => log[1] = ModelDump(EarlierTrade)

(* the race on the aggregate: both saves have returned their lists, both   *)
(* with aggregate output, the log has both lines, and the aggregate holds  *)
(* the record of one run only, the later dump having replaced the other's  *)
C5_Witness ==
    /\ BothAggregate
    /\ \A p \in Procs : pc[p] = "done" /\ ret[p].t = "saved"
    /\ \A p \in Procs : Cardinality(LinesOf(p)) = 1
    /\ summaries[0] \notin {NoFile, Truncated, Garbled}
    /\ \E p \in Procs :
         /\ \E i \in 1..Len(summaries[0].trades) :
                summaries[0].trades[i] = ModelDump(loc[p].trade)
         /\ \A q \in Procs \ {p}, i \in 1..Len(summaries[0].trades) :
                summaries[0].trades[i] # ModelDump(loc[q].trade)
====
